---- MODULE Spec2Model ----
(***************************************************************************)
(* Model of src/features/modals/NodeModal/index.tsx: the node editor of    *)
(* the JSON graph view.  normalizeNodeData turns a node's field rows into  *)
(* editable text, updateJsonByPath writes edited fields back into the      *)
(* document at the node's path, and NodeModal drives both from the Edit,   *)
(* Save and Cancel buttons.                                                *)
(*                                                                         *)
(* JSON values are tagged records.  An object keeps its entries as a       *)
(* sequence (JavaScript property order); an array keeps its elements and,  *)
(* in field x, the non-index properties JavaScript lets code hang on it.   *)
(* Text is a sequence of tokens: whitespace is not modelled, everything    *)
(* else of JSON.parse / JSON.stringify is.                                 *)
(*                                                                         *)
(* Not modelled: the property "length" and inherited properties            *)
(* (constructor, toString, __proto__) as path selectors or keys; strings   *)
(* whose bare text would lex into more than one JSON token; numbers other  *)
(* than the non-negative integers 0..9; a path given as a single string    *)
(* instead of an array (NodeModal always passes an array).                 *)
(***************************************************************************)
EXTENDS Integers, Sequences, FiniteSets, TLC

VARIABLES
    json,         \* useJson store: the document text (getJson / setJson)
    contents,     \* useFile store: what setContents last received
    nodeData,     \* useGraph store: the selected node (rows + path), or NoNode
    opened,       \* the modal's opened prop
    isEditing,    \* React state isEditing
    editedValue,  \* React state editedValue: the text in the editor
    closeTimers,  \* setTimeout(onClose, 100) callbacks not yet run
    saves,        \* number of Saves that committed
    last,         \* the handleSave run that just ended: its locals and its toast
    call,         \* arguments of a direct call of a pure function
    ret           \* its result

vars == <<json, contents, nodeData, opened, isEditing, editedValue,
          closeTimers, saves, last, call, ret>>

modalVars == <<json, contents, nodeData, opened, isEditing, editedValue,
               closeTimers, saves, last>>

(***************************************************************************)
(* JSON values as JavaScript holds them in memory.                         *)
(***************************************************************************)
Null == [t |-> "null"]

Undefined == [t |-> "undefined"]

Bool(b) == [t |-> "boolean", b |-> b]

Num(n) == [t |-> "number", n |-> n]

Str(s) == [t |-> "string", s |-> s]

Arr(a) == [t |-> "array", a |-> a, x |-> <<>>]

Obj(e) == [t |-> "object", e |-> e]

Entry(k, v) == [k |-> k, v |-> v]

IsContainer(v) == v.t \in {"object", "array"}

\* typeof value !== "object" || value === null
IsLeaf(v) == ~IsContainer(v)

\* A path selector: a string (object key) or a number (array index).
KeySel(s) == [s |-> s]

IdxSel(n) == [n |-> n]

\* typeof seg === "number"
IsNumber(seg) == "n" \in DOMAIN seg

(***************************************************************************)
(* Number <-> text (String(n), and the canonical array index of a string). *)
(***************************************************************************)
Digits == <<"0", "1", "2", "3", "4", "5", "6", "7", "8", "9">>

RECURSIVE NumText(_)
NumText(n) ==
    IF n < Len(Digits) THEN Digits[n + 1]
    ELSE NumText(n \div Len(Digits)) \o Digits[(n % Len(Digits)) + 1]

\* The array index a property name denotes, or -1 (one-digit names only).
IndexOf(s) ==
    IF \E i \in DOMAIN Digits : Digits[i] = s
    THEN (CHOOSE i \in DOMAIN Digits : Digits[i] = s) - 1
    ELSE -1

\* The characters of a string value (strings of the model are "", "ab" or one
\* character long).
Chars(s) ==
    CASE s = "" -> <<>>
      [] s = "ab" -> <<"a", "b">>
      [] OTHER -> <<s>>

\* The property name a selector addresses: current[key] converts key to a string.
PropKey(seg) == IF IsNumber(seg) THEN NumText(seg.n) ELSE seg.s

(***************************************************************************)
(* Ordinary objects: entries in JavaScript own-property order (integer     *)
(* names ascending first, then the other names in insertion order).        *)
(***************************************************************************)
ObjHas(e, k) == \E i \in DOMAIN e : e[i].k = k

ObjGet(e, k) ==
    IF ObjHas(e, k) THEN e[CHOOSE i \in DOMAIN e : e[i].k = k].v ELSE Undefined

ObjPut(e, k, v) ==
    IF ObjHas(e, k)
    THEN [i \in DOMAIN e |-> IF e[i].k = k THEN Entry(k, v) ELSE e[i]]
    ELSE IF IndexOf(k) >= 0
    THEN LET before == Cardinality({i \in DOMAIN e :
                           IndexOf(e[i].k) >= 0 /\ IndexOf(e[i].k) < IndexOf(k)})
         IN  SubSeq(e, 1, before) \o <<Entry(k, v)>> \o SubSeq(e, before + 1, Len(e))
    ELSE Append(e, Entry(k, v))

ObjKeys(e) == [i \in DOMAIN e |-> e[i].k]

(***************************************************************************)
(* Property access on any value: key in current, current[key],             *)
(* current[key] = v, Object.keys(v).                                       *)
(***************************************************************************)
\* key in current (current an object or an array; on anything else it throws)
HasProp(current, k) ==
    IF current.t = "object" THEN ObjHas(current.e, k)
    ELSE LET i == IndexOf(k)
         IN  \/ i >= 0 /\ i < Len(current.a) /\ current.a[i + 1] # Undefined
             \/ ObjHas(current.x, k)

\* current[key]
GetProp(current, k) ==
    CASE current.t = "object" -> ObjGet(current.e, k)
      [] current.t = "array" ->
            LET i == IndexOf(k)
            IN  IF i >= 0 /\ i < Len(current.a) THEN current.a[i + 1]
                ELSE ObjGet(current.x, k)
      [] current.t = "string" ->
            LET i == IndexOf(k)
            IN  IF i >= 0 /\ i < Len(Chars(current.s))
                THEN Str(Chars(current.s)[i + 1]) ELSE Undefined
      [] OTHER -> Undefined

\* SetProp building a fresh object around the property instead of changing
\* the object it is given.
SetPropAlone(current, k, v) ==
    IF current.t = "object" THEN Obj(<<Entry(k, v)>>)
    ELSE LET i == IndexOf(k)
         IN  IF i < 0 THEN [current EXCEPT !.x = ObjPut(current.x, k, v)]
             ELSE [current EXCEPT !.a =
                      [j \in 1..(IF i < Len(current.a) THEN Len(current.a) ELSE i + 1) |->
                          IF j = i + 1 THEN v
                          ELSE IF j <= Len(current.a) THEN current.a[j]
                          ELSE Undefined]]

\* current[key] = v (current an object or an array)
SetProp(current, k, v) ==
    IF current.t = "object" THEN Obj(ObjPut(current.e, k, v))
    ELSE LET i == IndexOf(k)
         IN  IF i < 0 THEN [current EXCEPT !.x = ObjPut(current.x, k, v)]
             ELSE [current EXCEPT !.a =
                      [j \in 1..(IF i < Len(current.a) THEN Len(current.a) ELSE i + 1) |->
                          IF j = i + 1 THEN v
                          ELSE IF j <= Len(current.a) THEN current.a[j]
                          ELSE Undefined]]

\* Object.keys(v), v neither null nor undefined
OwnKeys(v) ==
    CASE v.t = "object" -> ObjKeys(v.e)
      [] v.t = "array" ->
            LET idx == {i \in DOMAIN v.a : v.a[i] # Undefined}
                IdxKeys[n \in 0..Len(v.a)] ==
                    IF n = 0 THEN <<>>
                    ELSE IF n \in idx THEN Append(IdxKeys[n - 1], NumText(n - 1))
                    ELSE IdxKeys[n - 1]
            IN  IdxKeys[Len(v.a)] \o ObjKeys(v.x)
      [] v.t = "string" -> [i \in DOMAIN Chars(v.s) |-> NumText(i - 1)]
      [] OTHER -> <<>>

(***************************************************************************)
(* Text: a sequence of tokens.  A quoted token is a JSON string literal; a *)
(* bare token is punctuation, a literal name, a number, or any other run   *)
(* of characters.                                                          *)
(***************************************************************************)
Quoted(s) == [q |-> TRUE, s |-> s]

Bare(s) == [q |-> FALSE, s |-> s]

\* `${value}`: a string's bare characters, a number's digits, true, false, null
TemplateText(v) ==
    CASE v.t = "string" -> IF v.s = "" THEN <<>> ELSE <<Bare(v.s)>>
      [] v.t = "number" -> <<Bare(NumText(v.n))>>
      [] v.t = "boolean" -> <<Bare(IF v.b THEN "true" ELSE "false")>>
      [] v.t = "null" -> <<Bare("null")>>
      [] OTHER -> <<Bare("undefined")>>

\* JSON.stringify(v, null, 2)
RECURSIVE Stringify(_)
RECURSIVE StringifyElements(_, _)
RECURSIVE StringifyMembers(_, _)
Stringify(v) ==
    CASE v.t = "object" ->
            <<Bare("{")>> \o StringifyMembers(v.e, 1) \o <<Bare("}")>>
      [] v.t = "array" ->
            <<Bare("[")>> \o StringifyElements(v.a, 1) \o <<Bare("]")>>
      [] v.t = "string" -> <<Quoted(v.s)>>
      [] v.t = "undefined" -> <<Bare("null")>>
      [] OTHER -> TemplateText(v)

StringifyElements(a, i) ==
    IF i > Len(a) THEN <<>>
    ELSE (IF i > 1 THEN <<Bare(",")>> ELSE <<>>)
         \o Stringify(a[i]) \o StringifyElements(a, i + 1)

StringifyMembers(e, i) ==
    IF i > Len(e) THEN <<>>
    ELSE (IF i > 1 THEN <<Bare(",")>> ELSE <<>>)
         \o <<Quoted(e[i].k), Bare(":")>> \o Stringify(e[i].v)
         \o StringifyMembers(e, i + 1)

\* JSON.parse(text): [ok |-> FALSE] when it throws, else the value.
Fail == [ok |-> FALSE]

IsTok(text, i, s) == i <= Len(text) /\ text[i] = Bare(s)

RECURSIVE ParseValue(_, _)
RECURSIVE ParseElements(_, _, _)
RECURSIVE ParseMembers(_, _, _)
ParseValue(text, i) ==
    IF i > Len(text) THEN Fail
    ELSE LET tok == text[i]
         IN  IF tok.q THEN [ok |-> TRUE, v |-> Str(tok.s), next |-> i + 1]
             ELSE CASE tok.s = "{" ->
                         IF IsTok(text, i + 1, "}")
                         THEN [ok |-> TRUE, v |-> Obj(<<>>), next |-> i + 2]
                         ELSE ParseMembers(text, i + 1, <<>>)
                    [] tok.s = "[" ->
                         IF IsTok(text, i + 1, "]")
                         THEN [ok |-> TRUE, v |-> Arr(<<>>), next |-> i + 2]
                         ELSE ParseElements(text, i + 1, <<>>)
                    [] tok.s = "true" -> [ok |-> TRUE, v |-> Bool(TRUE), next |-> i + 1]
                    [] tok.s = "false" -> [ok |-> TRUE, v |-> Bool(FALSE), next |-> i + 1]
                    [] tok.s = "null" -> [ok |-> TRUE, v |-> Null, next |-> i + 1]
                    [] OTHER ->
                         IF IndexOf(tok.s) >= 0
                         THEN [ok |-> TRUE, v |-> Num(IndexOf(tok.s)), next |-> i + 1]
                         ELSE Fail

ParseElements(text, i, acc) ==
    LET r == ParseValue(text, i)
    IN  IF ~r.ok THEN Fail
        ELSE IF IsTok(text, r.next, ",")
        THEN ParseElements(text, r.next + 1, Append(acc, r.v))
        ELSE IF IsTok(text, r.next, "]")
        THEN [ok |-> TRUE, v |-> Arr(Append(acc, r.v)), next |-> r.next + 1]
        ELSE Fail

ParseMembers(text, i, acc) ==
    IF ~(i + 1 <= Len(text) /\ text[i].q /\ text[i + 1] = Bare(":")) THEN Fail
    ELSE LET r == ParseValue(text, i + 2)
         IN  IF ~r.ok THEN Fail
             ELSE IF IsTok(text, r.next, ",")
             THEN ParseMembers(text, r.next + 1, ObjPut(acc, text[i].s, r.v))
             ELSE IF IsTok(text, r.next, "}")
             THEN [ok |-> TRUE, v |-> Obj(ObjPut(acc, text[i].s, r.v)),
                   next |-> r.next + 1]
             ELSE Fail

Parse(text) ==
    LET r == ParseValue(text, 1)
    IN  IF r.ok /\ r.next = Len(text) + 1 THEN [ok |-> TRUE, v |-> r.v] ELSE Fail

(***************************************************************************)
(* updateJsonByPath.                                                       *)
(***************************************************************************)
\* MergeLeafFields without the leaf test of line 72.
RECURSIVE MergeAllFields(_, _, _)
MergeAllFields(mergedNode, editedFields, keys) ==
    IF keys = <<>> THEN mergedNode
    ELSE MergeAllFields(ObjPut(mergedNode, Head(keys), GetProp(editedFields, Head(keys))),
                        editedFields, Tail(keys))

\* Object.keys(editedFields).forEach(...): lines 69-75
RECURSIVE MergeLeafFields(_, _, _)
MergeLeafFields(mergedNode, editedFields, keys) ==
    IF keys = <<>> THEN mergedNode
    ELSE LET key == Head(keys)
             value == GetProp(editedFields, key)
         IN  MergeLeafFields(
                 IF IsLeaf(value) THEN ObjPut(mergedNode, key, value) ELSE mergedNode,
                 editedFields, Tail(keys))

Threw == [threw |-> TRUE]

\* lines 58-82: the update of the slot lastKey of current.  Object.keys(null)
\* throws, and so does (the file is a module, hence strict code) an assignment
\* to a property of a number, a string or a boolean.
UpdateSlot(current, lastKey, editedFields) ==
    IF current.t \in {"null", "undefined"} THEN [threw |-> FALSE, node |-> current]
    ELSE LET targetNode == GetProp(current, lastKey)
         IN  IF targetNode.t = "object"
             THEN IF editedFields.t \in {"null", "undefined"} THEN Threw
                  ELSE [threw |-> FALSE,
                        node |-> SetProp(current, lastKey,
                                    Obj(MergeLeafFields(targetNode.e, editedFields,
                                                        OwnKeys(editedFields))))]
             ELSE IF ~IsContainer(current) THEN Threw
             ELSE [threw |-> FALSE, node |-> SetProp(current, lastKey, editedFields)]

\* Navigate choosing the new container's kind by the selector itself instead
\* of the next one.
RECURSIVE NavigateKindByKey(_, _, _, _)
NavigateKindByKey(current, pathArray, i, editedFields) ==
    LET key == PropKey(pathArray[i])
    IN  IF i = Len(pathArray) THEN UpdateSlot(current, key, editedFields)
        ELSE IF ~IsContainer(current) THEN Threw
        ELSE LET created == IF HasProp(current, key) THEN current
                            ELSE SetProp(current, key,
                                     IF IsNumber(pathArray[i])
                                     THEN Arr(<<>>) ELSE Obj(<<>>))
                 below == NavigateKindByKey(GetProp(created, key), pathArray, i + 1,
                                            editedFields)
             IN  IF below.threw THEN Threw
                 ELSE [threw |-> FALSE, node |-> SetProp(created, key, below.node)]

\* lines 49-56, then the slot update: the value current holds after the call,
\* or Threw.  i is the position in pathArray, from 1.
RECURSIVE Navigate(_, _, _, _)
Navigate(current, pathArray, i, editedFields) ==
    LET key == PropKey(pathArray[i])
    IN  IF i = Len(pathArray) THEN UpdateSlot(current, key, editedFields)
        ELSE IF ~IsContainer(current) THEN Threw
        ELSE LET created == IF HasProp(current, key) THEN current
                            ELSE SetProp(current, key,
                                     IF IsNumber(pathArray[i + 1])
                                     THEN Arr(<<>>) ELSE Obj(<<>>))
                 below == Navigate(GetProp(created, key), pathArray, i + 1,
                                   editedFields)
             IN  IF below.threw THEN Threw
                 ELSE [threw |-> FALSE, node |-> SetProp(created, key, below.node)]

\* UpdateRun testing the path before it parses the document.
UpdateRunPathFirst(text, path, editedFields) ==
    IF Len(path) = 0
    THEN [threw |-> FALSE, obj |-> Undefined, out |-> Stringify(editedFields)]
    ELSE LET parsed == Parse(text)
             r == Navigate(parsed.v, path, 1, editedFields)
         IN  IF ~parsed.ok \/ r.threw
             THEN [threw |-> TRUE, obj |-> Undefined, out |-> text]
             ELSE [threw |-> FALSE, obj |-> r.node, out |-> Stringify(r.node)]

\* UpdateRun merging editedFields into an object document at the empty path.
UpdateRunMergeRoot(text, path, editedFields) ==
    LET parsed == Parse(text)
    IN  IF ~parsed.ok THEN [threw |-> TRUE, obj |-> Undefined, out |-> text]
        ELSE IF Len(path) = 0
        THEN LET merged == IF parsed.v.t = "object" /\ editedFields.t = "object"
                           THEN Obj(MergeLeafFields(parsed.v.e, editedFields,
                                                    OwnKeys(editedFields)))
                           ELSE editedFields
             IN  [threw |-> FALSE, obj |-> parsed.v, out |-> Stringify(merged)]
        ELSE LET r == Navigate(parsed.v, path, 1, editedFields)
             IN  IF r.threw THEN [threw |-> TRUE, obj |-> Undefined, out |-> text]
                 ELSE [threw |-> FALSE, obj |-> r.node, out |-> Stringify(r.node)]

\* The whole call: whether the catch block ran, the tree obj as it is at
\* line 84 (when reached), and the returned text.
UpdateRun(text, path, editedFields) ==
    LET parsed == Parse(text)
    IN  IF ~parsed.ok THEN [threw |-> TRUE, obj |-> Undefined, out |-> text]
        ELSE IF Len(path) = 0
        THEN [threw |-> FALSE, obj |-> parsed.v, out |-> Stringify(editedFields)]
        ELSE LET r == Navigate(parsed.v, path, 1, editedFields)
             IN  IF r.threw THEN [threw |-> TRUE, obj |-> Undefined, out |-> text]
                 ELSE [threw |-> FALSE, obj |-> r.node, out |-> Stringify(r.node)]

updateJsonByPath(text, path, editedFields) == UpdateRun(text, path, editedFields).out

(***************************************************************************)
(* normalizeNodeData.  A row is [key, value, type]; key is Null or a       *)
(* string value.                                                           *)
(***************************************************************************)
Row(key, value, type) == [key |-> key, value |-> value, type |-> type]

\* !v
Falsy(v) ==
    \/ v.t \in {"null", "undefined"}
    \/ v.t = "string" /\ v.s = ""
    \/ v.t = "boolean" /\ ~v.b
    \/ v.t = "number" /\ v.n = 0

\* nodeRows.forEach(...): lines 16-21
RECURSIVE CollectLeafRows(_, _)
CollectLeafRows(obj, nodeRows) ==
    IF nodeRows = <<>> THEN obj
    ELSE LET row == Head(nodeRows)
         IN  CollectLeafRows(
                 IF row.type # "array" /\ row.type # "object" /\ ~Falsy(row.key)
                 THEN ObjPut(obj, row.key.s, row.value) ELSE obj,
                 Tail(nodeRows))

normalizeNodeData(nodeRows) ==
    IF Len(nodeRows) = 0 THEN <<Bare("{"), Bare("}")>>
    ELSE IF Len(nodeRows) = 1 /\ Falsy(nodeRows[1].key)
    THEN TemplateText(nodeRows[1].value)
    ELSE Stringify(Obj(CollectLeafRows(<<>>, nodeRows)))

(***************************************************************************)
(* The graph collaborator: the nodes of a document and their rows.         *)
(***************************************************************************)
Marker == Str("...")

\* The rows of a node holding value v: one row per property of an object
\* (a marker row for a nested array or object), one keyless row for a scalar.
NodeRows(v) ==
    IF v.t = "object"
    THEN [i \in DOMAIN v.e |->
             IF IsContainer(v.e[i].v) THEN Row(Str(v.e[i].k), Marker, v.e[i].v.t)
             ELSE Row(Str(v.e[i].k), v.e[i].v, v.e[i].v.t)]
    ELSE <<Row(Null, v, v.t)>>

\* The nodes of the document: every object, every scalar element of an array
\* and a scalar root, each with its rows and its path from the root.
RECURSIVE NodesAt(_, _, _)
NodesAt(v, path, isElement) ==
    CASE v.t = "object" ->
            {[text |-> NodeRows(v), path |-> path]}
            \cup UNION {NodesAt(v.e[i].v, Append(path, KeySel(v.e[i].k)), FALSE) :
                           i \in DOMAIN v.e}
      [] v.t = "array" ->
            UNION {NodesAt(v.a[i], Append(path, IdxSel(i - 1)), TRUE) : i \in DOMAIN v.a}
      [] OTHER -> IF isElement THEN {[text |-> NodeRows(v), path |-> path]} ELSE {}

Nodes(doc) == NodesAt(doc, <<>>, TRUE)

NoNode == [none |-> TRUE]

(***************************************************************************)
(* NodeModal.                                                              *)
(***************************************************************************)
\* The JavaScript string a text is (editedFields = editedValue, line 115).
RECURSIVE TextString(_)
TextString(text) ==
    IF text = <<>> THEN ""
    ELSE (IF Head(text).q THEN "\"" \o Head(text).s \o "\"" ELSE Head(text).s)
         \o TextString(Tail(text))

\* lines 112-116
ParseEdited(text) ==
    LET parsed == Parse(text)
    IN  IF parsed.ok THEN parsed.v ELSE Str(TextString(text))

\* React.useEffect(..., [nodeData, opened]): lines 99-104, run after a render
\* in which nodeData or opened changed.
AfterRender(node) ==
    IF node # NoNode
    THEN /\ editedValue' = normalizeNodeData(node.text)
         /\ isEditing' = FALSE
    ELSE UNCHANGED <<editedValue, isEditing>>

NoSave == [op |-> "none"]

\* The graph view selects a node of the document and opens the modal.
SelectNode ==
    /\ ~opened
    /\ Parse(json).ok
    /\ \E node \in Nodes(Parse(json).v) :
          /\ nodeData' = node
          /\ AfterRender(node)
    /\ opened' = TRUE
    /\ last' = NoSave
    /\ UNCHANGED <<json, contents, closeTimers, saves, call, ret>>

\* The parent opens the modal on the node selected before (or on none).
Open ==
    /\ ~opened
    /\ opened' = TRUE
    /\ AfterRender(nodeData)
    /\ last' = NoSave
    /\ UNCHANGED <<json, contents, nodeData, closeTimers, saves, call, ret>>

\* line 203: the Edit button
ClickEdit ==
    /\ opened /\ ~isEditing
    /\ isEditing' = TRUE
    /\ last' = NoSave
    /\ UNCHANGED <<json, contents, nodeData, opened, editedValue,
                   closeTimers, saves, call, ret>>

\* line 161: the user changes the text
ChangeText(text) ==
    /\ opened /\ isEditing
    /\ editedValue' = text
    /\ last' = NoSave
    /\ UNCHANGED <<json, contents, nodeData, opened, isEditing,
                   closeTimers, saves, call, ret>>

\* Saves that commit are counted up to MaxSaves.
MaxSaves == 2

\* handleSave committing the merged text without the validation of line 121.
handleSaveUnchecked ==
    /\ opened /\ isEditing
    /\ saves < MaxSaves
    /\ LET currentJson == json
           pathArray == IF nodeData = NoNode THEN <<>> ELSE nodeData.path
           editedFields == ParseEdited(editedValue)
           updatedJson == updateJsonByPath(currentJson, pathArray, editedFields)
           valid == TRUE
       IN  /\ last' = [op |-> "save", currentJson |-> currentJson,
                       node |-> nodeData, pathArray |-> pathArray,
                       editedValue |-> editedValue, editedFields |-> editedFields,
                       updatedJson |-> updatedJson,
                       toast |-> IF valid THEN "success" ELSE "error"]
           /\ IF valid
              THEN /\ json' = updatedJson
                   /\ contents' = [contents |-> updatedJson, hasChanges |-> TRUE,
                                   skipUpdate |-> FALSE]
                   /\ isEditing' = FALSE
                   /\ closeTimers' = closeTimers + 1
                   /\ saves' = saves + 1
              ELSE UNCHANGED <<json, contents, isEditing, closeTimers, saves>>
    /\ UNCHANGED <<nodeData, opened, editedValue, call, ret>>

\* lines 106-138: the Save button
handleSave ==
    /\ opened /\ isEditing
    /\ saves < MaxSaves
    /\ LET currentJson == json
           pathArray == IF nodeData = NoNode THEN <<>> ELSE nodeData.path
           editedFields == ParseEdited(editedValue)
           updatedJson == updateJsonByPath(currentJson, pathArray, editedFields)
           valid == Parse(updatedJson).ok
       IN  /\ last' = [op |-> "save", currentJson |-> currentJson,
                       node |-> nodeData, pathArray |-> pathArray,
                       editedValue |-> editedValue, editedFields |-> editedFields,
                       updatedJson |-> updatedJson,
                       toast |-> IF valid THEN "success" ELSE "error"]
           /\ IF valid
              THEN /\ json' = updatedJson
                   /\ contents' = [contents |-> updatedJson, hasChanges |-> TRUE,
                                   skipUpdate |-> FALSE]
                   /\ isEditing' = FALSE
                   /\ closeTimers' = closeTimers + 1
                   /\ saves' = saves + 1
              ELSE UNCHANGED <<json, contents, isEditing, closeTimers, saves>>
    /\ UNCHANGED <<nodeData, opened, editedValue, call, ret>>

\* lines 140-145: the Cancel button
handleCancel ==
    /\ opened /\ isEditing
    /\ IF nodeData # NoNode
       THEN editedValue' = normalizeNodeData(nodeData.text)
       ELSE UNCHANGED editedValue
    /\ isEditing' = FALSE
    /\ last' = NoSave
    /\ UNCHANGED <<json, contents, nodeData, opened, closeTimers, saves, call, ret>>

\* onClose(): the parent closes the modal; the effect runs as opened changed.
OnClose ==
    /\ opened' = FALSE
    /\ IF opened THEN AfterRender(nodeData) ELSE UNCHANGED <<editedValue, isEditing>>

\* line 155: the close button
ClickClose ==
    /\ opened
    /\ OnClose
    /\ last' = NoSave
    /\ UNCHANGED <<json, contents, nodeData, closeTimers, saves, call, ret>>

\* lines 131-133: the timer of a Save that committed
CloseTimer ==
    /\ closeTimers > 0
    /\ closeTimers' = closeTimers - 1
    /\ OnClose
    /\ last' = NoSave
    /\ UNCHANGED <<json, contents, nodeData, saves, call, ret>>

(***************************************************************************)
(* Inputs.                                                                 *)
(***************************************************************************)
MaxPathLen == 3

MaxRows == 3

A1 == Entry("a", Num(1))

Z9 == Entry("z", Num(9))

\* Objects and arrays over leaves S and nested containers C.
Objects(S, C) ==
    {Obj(<<>>)} \cup {Obj(<<Entry("a", s)>>) : s \in S}
    \cup {Obj(<<Entry("n", c)>>) : c \in C}
    \cup {Obj(<<Entry("a", s), Entry("n", c)>>) : s \in S, c \in C}

Arrays(S, C) == {Arr(<<>>)} \cup {Arr(<<v>>) : v \in S \cup C}

DocLeaves == {Null, Num(1)}

Containers0 == {Obj(<<>>), Arr(<<>>)}

Containers1 == Objects(DocLeaves, Containers0) \cup Arrays(DocLeaves, Containers0)

Docs ==
    DocLeaves \cup {Str("ab")}
    \cup Objects(DocLeaves, Containers1) \cup Arrays(DocLeaves, Containers1)

\* Texts JSON.parse rejects.
BadTexts == {<<>>, <<Bare("{")>>, <<Bare("{"), Quoted("a"), Bare(":"), Bare("1")>>}

Selectors == {KeySel("a"), KeySel("n"), IdxSel(0), IdxSel(1)}

RECURSIVE Seqs(_, _)
Seqs(S, n) ==
    IF n = 0 THEN {<<>>}
    ELSE Seqs(S, n - 1) \cup {Append(q, x) : q \in {p \in Seqs(S, n - 1) : Len(p) = n - 1}, x \in S}

Paths == Seqs(Selectors, MaxPathLen)

EditedFieldsSet ==
    {Null, Num(2), Str("ab"), Obj(<<Entry("a", Num(2))>>),
     Obj(<<Entry("a", Num(2)), Entry("n", Obj(<<Z9>>))>>),
     Obj(<<Entry("b", Str("ab")), Entry("a", Null)>>),
     Arr(<<Num(2), Obj(<<>>)>>)}

RowSet ==
    {Row(Null, Num(1), "number"), Row(Null, Str("ab"), "string"),
     Row(Null, Marker, "object"), Row(Str(""), Num(1), "number"),
     Row(Str("a"), Num(1), "number"), Row(Str("a"), Str("1"), "string"),
     Row(Str("b"), Null, "null"), Row(Str("n"), Marker, "object"),
     Row(Str("m"), Marker, "array")}

\* Row lists a node can have: keys are not repeated.
RowLists ==
    {rows \in Seqs(RowSet, MaxRows) :
        \A i, j \in DOMAIN rows :
            i # j /\ rows[i].key # Null => rows[i].key # rows[j].key}

\* Documents the modal starts from, and texts the user types.
ModalDocs ==
    {Str("ab"),
     Obj(<<A1, Entry("n", Obj(<<Z9>>))>>),
     Obj(<<Entry("x", Obj(<<A1, Entry("n", Obj(<<Z9>>))>>))>>),
     Arr(<<Str("1"), Obj(<<A1, Entry("n", Arr(<<>>))>>)>>)}

ModalTexts == {Stringify(d) : d \in ModalDocs} \cup {<<Bare("{")>>}

EditTexts ==
    {<<>>, <<Bare("ab")>>, <<Bare("{")>>, Stringify(Obj(<<Entry("a", Num(2))>>))}

(***************************************************************************)
(* Specifications.                                                         *)
(***************************************************************************)
NoCall == [fn |-> "none"]

NoRet == [done |-> FALSE]

ModalIdle ==
    /\ contents = [contents |-> json, hasChanges |-> FALSE, skipUpdate |-> FALSE]
    /\ nodeData = NoNode
    /\ opened = FALSE
    /\ isEditing = FALSE
    /\ editedValue = <<>>
    /\ closeTimers = 0
    /\ saves = 0
    /\ last = NoSave

\* The modal: mounted closed on a document, no node selected.
Init ==
    /\ json \in ModalTexts
    /\ ModalIdle
    /\ call = NoCall
    /\ ret = NoRet

Next ==
    \/ SelectNode
    \/ Open
    \/ ClickEdit
    \/ \E text \in EditTexts : ChangeText(text)
    \/ handleSave
    \/ handleCancel
    \/ ClickClose
    \/ CloseTimer

Spec == Init /\ [][Next]_vars

\* Direct calls of updateJsonByPath.
InitUpdate ==
    /\ json = <<>>
    /\ ModalIdle
    /\ \E text \in {Stringify(d) : d \in Docs} \cup BadTexts, path \in Paths,
          editedFields \in EditedFieldsSet :
          call = [fn |-> "updateJsonByPath", json |-> text, path |-> path,
                  editedFields |-> editedFields]
    /\ ret = NoRet

CallUpdate ==
    /\ call.fn = "updateJsonByPath" /\ ret = NoRet
    /\ ret' = [done |-> TRUE, run |-> UpdateRun(call.json, call.path, call.editedFields)]
    /\ UNCHANGED <<call, modalVars>>

SpecUpdate == InitUpdate /\ [][CallUpdate]_vars

\* Direct calls of normalizeNodeData.
InitNormalize ==
    /\ json = <<>>
    /\ ModalIdle
    /\ \E rows \in RowLists : call = [fn |-> "normalizeNodeData", nodeRows |-> rows]
    /\ ret = NoRet

CallNormalize ==
    /\ call.fn = "normalizeNodeData" /\ ret = NoRet
    /\ ret' = [done |-> TRUE, out |-> normalizeNodeData(call.nodeRows)]
    /\ UNCHANGED <<call, modalVars>>

SpecNormalize == InitNormalize /\ [][CallNormalize]_vars

(***************************************************************************)
(* Reading documents, for the properties below.                            *)
(***************************************************************************)
Prefix(path, n) == SubSeq(path, 1, n)

\* The value a path leads to in a tree, Undefined when it leads nowhere.
RECURSIVE ValueAt(_, _)
ValueAt(v, path) ==
    IF path = <<>> THEN v
    ELSE LET k == PropKey(Head(path))
         IN  CASE v.t = "object" ->
                    IF \E i \in DOMAIN v.e : v.e[i].k = k
                    THEN ValueAt(v.e[CHOOSE i \in DOMAIN v.e : v.e[i].k = k].v, Tail(path))
                    ELSE Undefined
               [] v.t = "array" ->
                    IF IndexOf(k) >= 0 /\ IndexOf(k) < Len(v.a)
                    THEN ValueAt(v.a[IndexOf(k) + 1], Tail(path))
                    ELSE IF \E i \in DOMAIN v.x : v.x[i].k = k
                    THEN ValueAt(v.x[CHOOSE i \in DOMAIN v.x : v.x[i].k = k].v, Tail(path))
                    ELSE Undefined
               [] OTHER -> Undefined

\* Every path that leads to a value of the tree.
RECURSIVE PathsOf(_)
PathsOf(v) ==
    {<<>>} \cup
    CASE v.t = "object" ->
            UNION {{<<KeySel(v.e[i].k)>> \o q : q \in PathsOf(v.e[i].v)} : i \in DOMAIN v.e}
      [] v.t = "array" ->
            UNION {{<<IdxSel(i - 1)>> \o q : q \in PathsOf(v.a[i])} : i \in DOMAIN v.a}
      [] OTHER -> {}

\* Neither path is a prefix of the other.
Diverge(p, q) ==
    \E i \in 1..(IF Len(p) < Len(q) THEN Len(p) ELSE Len(q)) : PropKey(p[i]) # PropKey(q[i])

KeySet(v) == {v.e[i].k : i \in DOMAIN v.e}

Field(v, k) == ValueAt(v, <<KeySel(k)>>)

\* The keys editedFields has for Object.keys, and those holding a scalar.
EditedKeys(v) ==
    CASE v.t = "object" -> KeySet(v)
      [] v.t = "array" -> {NumText(i - 1) : i \in DOMAIN v.a}
      [] v.t = "string" -> {NumText(i - 1) : i \in DOMAIN Chars(v.s)}
      [] OTHER -> {}

EditedValue(v, k) ==
    IF v.t = "string" THEN Str(Chars(v.s)[IndexOf(k) + 1]) ELSE Field(v, k)

ScalarKeys(v) == {k \in EditedKeys(v) : ~IsContainer(EditedValue(v, k))}

\* Deep structural equality: objects compare as key -> value maps.
RECURSIVE DeepEqual(_, _)
DeepEqual(v, w) ==
    /\ v.t = w.t
    /\ CASE v.t = "object" ->
               /\ KeySet(v) = KeySet(w)
               /\ \A k \in KeySet(v) : DeepEqual(Field(v, k), Field(w, k))
         [] v.t = "array" ->
               /\ Len(v.a) = Len(w.a)
               /\ \A i \in DOMAIN v.a : DeepEqual(v.a[i], w.a[i])
         [] OTHER -> v = w

(***************************************************************************)
(* updateJsonByPath called directly (SpecUpdate).                          *)
(***************************************************************************)
UpdateDone == call.fn = "updateJsonByPath" /\ ret.done

DocOk == Parse(call.json).ok

Doc == Parse(call.json).v

Result == Parse(ret.run.out).v

\* C1: with a parseable document and a non-empty path whose slot holds an
\* object, the slot of the result holds the same object with exactly the keys of
\* editedFields that carry a scalar set to the edited value; every other key
\* keeps its value and no key is removed.
C1_MergeKeepsUntouchedFields ==
    (UpdateDone /\ DocOk /\ Len(call.path) > 0 /\ ValueAt(Doc, call.path).t = "object")
    => LET T == ValueAt(Doc, call.path)
           R == ValueAt(Result, call.path)
           E == call.editedFields
       IN  /\ Parse(ret.run.out).ok
           /\ R.t = "object"
           /\ KeySet(R) = KeySet(T) \cup ScalarKeys(E)
           /\ \A k \in ScalarKeys(E) : Field(R, k) = EditedValue(E, k)
           /\ \A k \in KeySet(T) \ ScalarKeys(E) : Field(R, k) = Field(T, k)

\* a leaf was overwritten while a nested child missing from editedFields stayed
C1_Witness ==
    /\ UpdateDone /\ DocOk /\ Len(call.path) > 0
    /\ ValueAt(Doc, call.path).t = "object"
    /\ call.editedFields = Obj(<<Entry("a", Num(2))>>)
    /\ Field(ValueAt(Doc, call.path), "a") = Num(1)
    /\ IsContainer(Field(ValueAt(Doc, call.path), "n"))
    /\ Field(ValueAt(Result, call.path), "a") = Num(2)
    /\ Field(ValueAt(Result, call.path), "n") = Field(ValueAt(Doc, call.path), "n")

\* A path is stale when a selector before the last leads to nothing, to null
\* or to a scalar.
Stale(doc, path) ==
    \E n \in 1..(Len(path) - 1) : ~IsContainer(ValueAt(doc, Prefix(path, n)))

\* C4: for a parseable document and a non-empty stale path the call does not
\* take its error path and the returned document holds the edited value at the
\* path.
C4_PathResolutionNeverFails ==
    (UpdateDone /\ DocOk /\ IsContainer(Doc) /\ Len(call.path) > 0
        /\ Stale(Doc, call.path))
    => /\ ~ret.run.threw
       /\ Parse(ret.run.out).ok
       /\ ValueAt(Result, call.path) = call.editedFields

\* C6: when the document text does not parse, the call returns that very text,
\* whatever the path and the edited fields.
C6_FailsClosed ==
    (UpdateDone /\ ~DocOk) => ret.run.out = call.json

C6_Witness ==
    /\ UpdateDone /\ ~DocOk
    /\ call.path = <<>>
    /\ call.editedFields = Obj(<<Entry("a", Num(2))>>)
    /\ ret.run.out = call.json

\* C7: with a non-empty path, every value of the document that lies off the
\* path is found at the same place with the same value in the result.
C7_OffPathUntouched ==
    (UpdateDone /\ DocOk /\ Len(call.path) > 0)
    => /\ Parse(ret.run.out).ok
       /\ \A q \in PathsOf(Doc) :
              Diverge(q, call.path) => ValueAt(Result, q) = ValueAt(Doc, q)

\* the document changed and a nested sibling of the path stayed
C7_Witness ==
    /\ UpdateDone /\ DocOk /\ Len(call.path) > 1
    /\ ret.run.out # call.json
    /\ \E q \in PathsOf(Doc) :
          /\ Diverge(q, call.path)
          /\ IsContainer(ValueAt(Doc, q))
          /\ ValueAt(Result, q) = ValueAt(Doc, q)

\* C8: with an empty path the call returns the serialization of editedFields
\* alone: the result reads back as editedFields, nothing of the document in it.
C8_EmptyPathReplaces ==
    (UpdateDone /\ DocOk /\ call.path = <<>>)
    => /\ ret.run.out = Stringify(call.editedFields)
       /\ Parse(ret.run.out).ok
       /\ Result = call.editedFields

\* an object document with a key the edited object lacks
C8_Witness ==
    /\ UpdateDone /\ DocOk /\ call.path = <<>>
    /\ Doc.t = "object" /\ "n" \in KeySet(Doc)
    /\ call.editedFields = Obj(<<Entry("a", Num(2))>>)
    /\ Result = call.editedFields

\* The walk meets containers only: the root is one, and every selector before
\* the last leads to a container or to nothing.
WalkInContainers(doc, path) ==
    /\ IsContainer(doc)
    /\ \A n \in 1..(Len(path) - 1) :
          LET v == ValueAt(doc, Prefix(path, n)) IN IsContainer(v) \/ v = Undefined

\* v is a container made for the selector seg and holding nothing but seg.
MadeFor(v, seg) ==
    IF IsNumber(seg)
    THEN /\ v.t = "array" /\ v.x = <<>>
         /\ Len(v.a) = seg.n + 1
         /\ \A i \in 1..seg.n : v.a[i] = Undefined
    ELSE /\ v.t = "object"
         /\ KeySet(v) = {seg.s}

\* Object.keys(null) throws: a null editedFields cannot be merged into an object.
MergeThrows == ValueAt(Doc, call.path).t = "object" /\ call.editedFields = Null

NormalizeDone == call.fn = "normalizeNodeData" /\ ret.done

\* The rows that have a key and whose type is neither "array" nor "object".
LeafRows(rows) ==
    {i \in DOMAIN rows :
        rows[i].key # Null /\ rows[i].type # "array" /\ rows[i].type # "object"}

\* C9: an empty row list gives "{}"; one row without a key gives its value as
\* bare text; every other list gives text that reparses into the mapping of
\* exactly the rows that have a key and are not array or object rows.
C9_NormalizeKeepsKeyedLeafRows ==
    NormalizeDone
    => LET rows == call.nodeRows
       IN  IF rows = <<>> THEN ret.out = <<Bare("{"), Bare("}")>>
           ELSE IF Len(rows) = 1 /\ rows[1].key = Null
           THEN ret.out = TemplateText(rows[1].value)
           ELSE /\ Parse(ret.out).ok
                /\ Parse(ret.out).v.t = "object"
                /\ KeySet(Parse(ret.out).v) = {rows[i].key.s : i \in LeafRows(rows)}
                /\ \A i \in LeafRows(rows) :
                       Field(Parse(ret.out).v, rows[i].key.s) = rows[i].value

(***************************************************************************)
(* The modal (Spec).                                                       *)
(***************************************************************************)
Saved == last.op = "save"

\* C2: when the edited text is not valid JSON, a Save on a node of a parseable
\* document signals no failure and leaves exactly that text, as a string, at
\* the node's path, whatever the slot held.
C2_RawTextReplacesSlot ==
    (Saved /\ ~Parse(last.editedValue).ok /\ Parse(last.currentJson).ok
        /\ last.node # NoNode)
    => /\ last.toast = "success"
       /\ ValueAt(Parse(json).v, last.pathArray) = Str(TextString(last.editedValue))

\* The Save ran on a node as read from the document, its text unchanged.
UnchangedSave ==
    /\ Saved /\ last.node # NoNode
    /\ Parse(last.currentJson).ok
    /\ last.node \in Nodes(Parse(last.currentJson).v)
    /\ last.editedValue = normalizeNodeData(last.node.text)

\* C3: saving a node's seeded text unchanged yields a document deep-equal to
\* the document before the save.
C3_RoundTrip ==
    UnchangedSave
    => /\ Parse(last.updatedJson).ok
       /\ DeepEqual(Parse(last.updatedJson).v, Parse(last.currentJson).v)

\* C5: the stores change only in a Save whose merged text parses, both get that
\* text (contents with hasChanges true and skipUpdate false) and success is
\* reported; a Save whose merged text does not parse leaves both as they were
\* and reports an error.
C5_SaveCommitsValidatedTextOnly ==
    [][/\ (json' # json \/ contents' # contents) => Saved' /\ Parse(last'.updatedJson).ok
       /\ (Saved' /\ Parse(last'.updatedJson).ok)
              => /\ json' = last'.updatedJson
                 /\ contents' = [contents |-> last'.updatedJson, hasChanges |-> TRUE,
                                 skipUpdate |-> FALSE]
                 /\ last'.toast = "success"
       /\ (Saved' /\ ~Parse(last'.updatedJson).ok)
              => /\ json' = json
                 /\ contents' = contents
                 /\ last'.toast = "error"]_vars

\* a Save against a document text that does not parse was refused
C5_Witness ==
    /\ Saved
    /\ ~Parse(last.currentJson).ok
    /\ last.toast = "error"
    /\ json = last.currentJson
    /\ ~contents.hasChanges

====
